---- MODULE Spec2Model ----
(***************************************************************************)
(* A model of scripts/momoshop_scraper.py: one run of main(), which        *)
(* fetches a category page, extracts product listings from its cards or,   *)
(* failing that, from its inline scripts, filters them by keyword, limits  *)
(* them, and writes them as CSV, JSON or text.                             *)
(*                                                                         *)
(* Text is a sequence of symbols.  A symbol is a one-character string,     *)
(* except the two words the script pattern looks for, "goodsName" and      *)
(* "price", which are kept whole.  Python's None is the value None below.  *)
(***************************************************************************)
EXTENDS Integers, Sequences, FiniteSets, TLC

\* ------------------------------------------------------------------ bounds

\* The most candidate <li> cards a fetched page holds.
MaxCards == 2
\* The most <script> blocks a fetched page holds.
MaxScripts == 1
\* --limit is drawn from -MaxLimit .. MaxLimit, or is not given.
MaxLimit == 3

\* ------------------------------------------------------------ Python values

None == <<"<None>">>

\* bool(x) for x a str or None.
Truthy(x) == x # None /\ x # <<>>

\* a or b
PyOr(a, b) == IF Truthy(a) THEN a ELSE b

Min(a, b) == IF a <= b THEN a ELSE b
Max(a, b) == IF a >= b THEN a ELSE b

\* s[:n] of a list, for any integer n (a negative n counts from the end).
SliceTo(s, n) ==
    IF n >= 0 THEN SubSeq(s, 1, Min(n, Len(s)))
              ELSE SubSeq(s, 1, Max(Len(s) + n, 0))

RECURSIVE Concat(_)
\* "".join(ss)
Concat(ss) == IF ss = <<>> THEN <<>> ELSE Head(ss) \o Concat(Tail(ss))

RECURSIVE JoinWith(_, _)
\* sep.join(ss)
JoinWith(sep, ss) ==
    IF ss = <<>> THEN <<>>
    ELSE IF Len(ss) = 1 THEN Head(ss)
    ELSE Head(ss) \o sep \o JoinWith(sep, Tail(ss))

IsSpace(c) == c \in {" ", "\n", "\t", "\r"}
IsDigitOrComma(c) == c \in {"0", "1", "2", "3", "4", "5", "6", "7", "8", "9", ","}

\* str.lower() on one symbol; only the letters of the model's alphabet have case.
LowerChar(c) ==
    CASE c = "A" -> "a"
      [] c = "I" -> "i"
      [] c = "P" -> "p"
      [] c = "H" -> "h"
      [] c = "N" -> "n"
      [] c = "T" -> "t"
      [] OTHER -> c

\* s.lower()
Lower(s) == [i \in DOMAIN s |-> LowerChar(s[i])]

\* s.replace(" ", "")
RemoveSpaces(s) == SelectSeq(s, LAMBDA c : c # " ")

\* needle in hay
Contains(needle, hay) ==
    \E i \in 0 .. (Len(hay) - Len(needle)) :
        SubSeq(hay, i + 1, i + Len(needle)) = needle

RECURSIVE LStrip(_)
LStrip(s) == IF s # <<>> /\ IsSpace(Head(s)) THEN LStrip(Tail(s)) ELSE s

RECURSIVE RStrip(_)
RStrip(s) ==
    IF s # <<>> /\ IsSpace(s[Len(s)]) THEN RStrip(SubSeq(s, 1, Len(s) - 1)) ELSE s

\* s.strip()
Strip(s) == RStrip(LStrip(s))

\* ------------------------------------------------------------------- regex
(***************************************************************************)
(* Python's backtracking matcher for a pattern that is a sequence of       *)
(* quantified single-symbol atoms.  An atom is [cls, sym, q, g]: cls is    *)
(* "lit" (the symbol sym), "not" (any symbol but sym), "dot" (any symbol   *)
(* but a newline), "space" (\s) or "num" ([0-9,]); q is "1", "?", "*",     *)
(* "+" (greedy) or "*?" (lazy); g is the capture group the atom is, or 0.  *)
(***************************************************************************)
Atom(cls, sym, q, g) == [cls |-> cls, sym |-> sym, q |-> q, g |-> g]

InClass(a, c) ==
    CASE a.cls = "lit"   -> c = a.sym
      [] a.cls = "not"   -> c # a.sym
      [] a.cls = "dot"   -> c # "\n"
      [] a.cls = "space" -> IsSpace(c)
      [] a.cls = "num"   -> IsDigitOrComma(c)

\* The repetition counts atom a may take at position p of text, any order.
Counts(a, text, p) ==
    LET run(n) == \A k \in p .. (p + n - 1) : InClass(a, text[k])
        most == Len(text) + 1 - p
    IN  {n \in 0 .. most :
            /\ run(n)
            /\ a.q = "1" => n = 1
            /\ a.q = "?" => n <= 1
            /\ a.q = "+" => n >= 1}

RECURSIVE CanMatch(_, _, _)
\* The positions from which atoms i.. of pat match some stretch of text.
CanMatch(pat, text, i) ==
    IF i > Len(pat) THEN 1 .. (Len(text) + 1)
    ELSE LET rest == CanMatch(pat, text, i + 1)
         IN  {p \in 1 .. (Len(text) + 1) :
                 \E n \in Counts(pat[i], text, p) : p + n \in rest}

Least(S) == CHOOSE m \in S : \A o \in S : m <= o
Most(S) == CHOOSE m \in S : \A o \in S : m >= o

\* The counts atom a may take at p with the rest of the pattern matching after.
Fits(a, text, p, rest) == {n \in Counts(a, text, p) : p + n \in rest}

\* The count the matcher settles on: a lazy atom takes the fewest symbols the rest
\* can still match after, a greedy one the most.
Taken(a, fits) == IF a.q = "*?" THEN Least(fits) ELSE Most(fits)

RECURSIVE MatchFrom(_, _, _, _)
\* The positions <<p_i, ..., p_end>> the matcher's first successful path gives
\* atoms i.. when atom i starts at p (p is in CanMatch(pat, text, i)).
MatchFrom(pat, text, i, p) ==
    IF i > Len(pat) THEN <<p>>
    ELSE <<p>> \o MatchFrom(pat, text, i + 1,
                     p + Taken(pat[i], Fits(pat[i], text, p, CanMatch(pat, text, i + 1))))

\* The text group g captured on the path pos, empty for a pattern without it.
Group(pat, text, pos, g) ==
    IF \A j \in 1 .. Len(pat) : pat[j].g # g THEN <<>>
    ELSE SubSeq(text, pos[Least({j \in 1 .. Len(pat) : pat[j].g = g})],
                pos[Least({j \in 1 .. Len(pat) : pat[j].g = g}) + 1] - 1)

\* A match object, as [found, end, g1, g2].
MatchOn(pat, text, pos) ==
    [found |-> TRUE, end |-> pos[Len(pos)],
     g1 |-> Group(pat, text, pos, 1), g2 |-> Group(pat, text, pos, 2)]

NoMatch == [found |-> FALSE, end |-> 0, g1 |-> <<>>, g2 |-> <<>>]

\* The match at the leftmost of the starts.
SearchIn(pat, text, starts) ==
    IF starts = {} THEN NoMatch
    ELSE MatchOn(pat, text, MatchFrom(pat, text, 1, Least(starts)))

\* pattern.search(text, from): the leftmost match starting at from or later.
Search(pat, text, from) ==
    SearchIn(pat, text, {p \in CanMatch(pat, text, 1) : p >= from})

RECURSIVE FindIter(_, _, _)
\* The match m at or after from, and the matches after it.
FindNext(pat, text, from, m) ==
    IF ~m.found THEN <<>>
    ELSE <<m>> \o FindIter(pat, text, IF m.end > from THEN m.end ELSE from + 1)

\* pattern.finditer(text): the non-overlapping matches, left to right.
FindIter(pat, text, from) == FindNext(pat, text, from, Search(pat, text, from))

\* re.compile(r"\{[^\}]*?goodsName\s*:\s*\"?(.*?)\"?[^\}]*?price\s*:?\s*\"?([0-9,]+)\"?[^\}]*?\}")
ScriptPattern ==
    << Atom("lit", "{", "1", 0),
       Atom("not", "}", "*?", 0),
       Atom("lit", "goodsName", "1", 0),
       Atom("space", "", "*", 0),
       Atom("lit", ":", "1", 0),
       Atom("space", "", "*", 0),
       Atom("lit", "\"", "?", 0),
       Atom("dot", "", "*?", 1),
       Atom("lit", "\"", "?", 0),
       Atom("not", "}", "*?", 0),
       Atom("lit", "price", "1", 0),
       Atom("space", "", "*", 0),
       Atom("lit", ":", "?", 0),
       Atom("space", "", "*", 0),
       Atom("lit", "\"", "?", 0),
       Atom("num", "", "+", 2),
       Atom("lit", "\"", "?", 0),
       Atom("not", "}", "*?", 0),
       Atom("lit", "}", "1", 0) >>

\* r"NT\$?\s*([0-9,]+)"
PricePattern ==
    << Atom("lit", "N", "1", 0),
       Atom("lit", "T", "1", 0),
       Atom("lit", "$", "?", 0),
       Atom("space", "", "*", 0),
       Atom("num", "", "+", 1) >>

\* ---------------------------------------------------------------- the page
(***************************************************************************)
(* The parsed page, as far as the selectors read it.  A page is            *)
(* [cards, scripts].  A card is a candidate <li>: [children, dataEc,       *)
(* ecData, dataGtm].  A child is [kind, text], where kind says which       *)
(* selectors the element answers to: "name" (h3, p.prdName,                *)
(* p[class*=name], div[class*=name]), "atitle" (an <a> with a title        *)
(* attribute), "price" (span.price, span/em/b[class*=price]) or "other".   *)
(* An attribute is [kind, l2, l1]: "absent", "empty" (the empty string),   *)
(* "bad" (text that is not JSON), "null" (the JSON null), "arr" (a         *)
(* non-empty JSON array) or "obj" (a JSON object whose cateLevel2Name and  *)
(* cateLevel1Name are l2 and l1, None when the key is missing).  A script  *)
(* is its text.                                                            *)
(***************************************************************************)
Child(kind, text) == [kind |-> kind, text |-> text]
NoNode == Child("none", <<>>)

Attr(kind, l2, l1) == [kind |-> kind, l2 |-> l2, l1 |-> l1]
Absent == Attr("absent", None, None)

Card(children, dataEc, ecData, dataGtm) ==
    [children |-> children, dataEc |-> dataEc, ecData |-> ecData, dataGtm |-> dataGtm]

Product(title, price, category) ==
    [title |-> title, price |-> price, category |-> category]

\* li.select_one(...) / li.find(...): the first child of one of the kinds, or NoNode.
FirstChild(li, kinds) ==
    LET hits == {i \in DOMAIN li.children : li.children[i].kind \in kinds}
    IN  IF hits = {} THEN NoNode
        ELSE li.children[CHOOSE i \in hits : \A j \in hits : i <= j]

\* li.get_text()
GetText(li) == Concat([i \in DOMAIN li.children |-> li.children[i].text])

\* _text_or_none(element)
_text_or_none(element) ==
    IF element = NoNode THEN None
    ELSE LET text == Strip(element.text)
         IN  IF text # <<>> THEN text ELSE None

\* json.loads(raw) for a non-empty raw: [error, value]; value is an attribute
\* record of kind "null", "arr" or "obj".
JsonLoads(raw) ==
    IF raw.kind = "bad" THEN [error |-> TRUE, value |-> Absent]
    ELSE [error |-> FALSE, value |-> raw]

\* _parse_json_metadata(li): the decoded value, Absent standing for None.
_parse_json_metadata(li) ==
    LET given(a) == a.kind \notin {"absent", "empty"}
        raw == IF given(li.dataEc) THEN li.dataEc
               ELSE IF given(li.ecData) THEN li.ecData
               ELSE li.dataGtm
    IN  IF ~given(raw) THEN Absent
        ELSE LET r == JsonLoads(raw)
             IN  IF r.error \/ r.value.kind = "null" THEN Absent ELSE r.value

\* bool(meta) at line 108: None is false, a non-empty array is true; an object
\* with neither key gives category None whether it is empty or not, and stands
\* here for the empty one.
MetaTruthy(meta) ==
    \/ meta.kind = "arr"
    \/ meta.kind = "obj" /\ (meta.l2 # None \/ meta.l1 # None)

\* match.group(1) if match else None
GroupOrNone(match) == IF match.found THEN match.g1 ELSE None

\* CardPrice as it would be if an empty price element fell back to the text.
CardPriceFallingBack(li) ==
    IF _text_or_none(FirstChild(li, {"price"})) = None
    THEN GroupOrNone(Search(PricePattern, GetText(li), 1))
    ELSE _text_or_none(FirstChild(li, {"price"}))

\* The price of one card (lines 95-104).
CardPrice(li) ==
    IF FirstChild(li, {"price"}) = NoNode
    THEN GroupOrNone(Search(PricePattern, GetText(li), 1))
    ELSE _text_or_none(FirstChild(li, {"price"}))

\* The title of one card (lines 90-93).
CardTitle(li) ==
    _text_or_none(IF FirstChild(li, {"name"}) = NoNode THEN FirstChild(li, {"atitle"})
               ELSE FirstChild(li, {"name"}))

\* meta.get(...) at line 109 raises AttributeError on a value that is no dict.
MetaRaises(meta) == MetaTruthy(meta) /\ meta.kind # "obj"

\* The category of one card (lines 107-109).
CardCategory(meta) ==
    IF MetaTruthy(meta) /\ meta.kind = "obj" THEN PyOr(meta.l2, meta.l1) ELSE None

\* Lines 106-112 of one turn of the loop: [raised, admitted, product].
Listing(title, price, meta) ==
    [raised |-> MetaRaises(meta),
     admitted |-> ~MetaRaises(meta) /\ Truthy(title),
     product |-> Product(title, price, CardCategory(meta))]

\* One turn of the loop of _extract_from_cards.
ExtractCard(li) == Listing(CardTitle(li), CardPrice(li), _parse_json_metadata(li))

\* The loop's result from one turn c and the turns after it: an exception in any
\* turn leaves the function.
Collect(c, rest) ==
    IF c.raised THEN [raised |-> TRUE, products |-> <<>>]
    ELSE IF rest.raised THEN rest
    ELSE [raised |-> FALSE,
          products |-> (IF c.admitted THEN <<c.product>> ELSE <<>>) \o rest.products]

RECURSIVE _extract_from_cards(_)
\* _extract_from_cards(soup) on the candidates in document order:
\* [raised, products].
_extract_from_cards(cards) ==
    IF cards = <<>> THEN [raised |-> FALSE, products |-> <<>>]
    ELSE Collect(ExtractCard(Head(cards)), _extract_from_cards(Tail(cards)))

\* Line 124-125 for the matches of one script.
ScriptProducts(found) ==
    [i \in DOMAIN found |-> Product(found[i].g1, found[i].g2, None)]

RECURSIVE _extract_from_scripts(_)
\* _extract_from_scripts(soup): a script without text is skipped.
_extract_from_scripts(scripts) ==
    IF scripts = <<>> THEN <<>>
    ELSE (IF Head(scripts) = <<>> THEN <<>>
          ELSE ScriptProducts(FindIter(ScriptPattern, Head(scripts), 1)))
         \o _extract_from_scripts(Tail(scripts))

\* Fallback as it would be without the fallback.
FallbackNever(cards, scripts) ==
    [raised |-> cards.raised, products |-> cards.products, passes |-> <<"cards">>]

\* Lines 132-134 after the card pass returned cards.
Fallback(cards, scripts) ==
    IF cards.raised
    THEN [raised |-> TRUE, products |-> <<>>, passes |-> <<"cards">>]
    ELSE IF cards.products = <<>>
    THEN [raised |-> FALSE, products |-> _extract_from_scripts(scripts),
          passes |-> <<"cards", "scripts">>]
    ELSE [raised |-> FALSE, products |-> cards.products, passes |-> <<"cards">>]

\* extract_products(html): [raised, products, passes]; passes lists the
\* extractors that ran, in order.
extract_products(html) == Fallback(_extract_from_cards(html.cards), html.scripts)

\* ------------------------------------------------------------------ filter

\* matches_keyword as it would be with the spaces of the haystack kept.
matches_keyword_spaced(product, keyword) ==
    Contains(Lower(RemoveSpaces(keyword)),
             Lower(JoinWith(<<" ">>,
                       SelectSeq(<<product.category, product.title>>, Truthy))))

\* Product.matches_keyword(keyword)
matches_keyword(product, keyword) ==
    LET normalized == Lower(RemoveSpaces(keyword))
        haystack == JoinWith(<<" ">>,
                        SelectSeq(<<product.category, product.title>>, Truthy))
    IN  Contains(normalized, Lower(RemoveSpaces(haystack)))

\* filter_products as it would be if it skipped the first match.
filter_products_skip_first(products, keyword) ==
    LET kept == SelectSeq(products, LAMBDA product : matches_keyword(product, keyword))
    IN  IF kept = <<>> THEN kept ELSE Tail(kept)

\* filter_products(products, keyword)
filter_products(products, keyword) ==
    SelectSeq(products, LAMBDA product : matches_keyword(product, keyword))

\* ------------------------------------------------------------------ output

\* format_products(products)
format_products(products) ==
    LET line(product) ==
            LET price_part == PyOr(product.price, <<"N", "/", "A">>)
                category_part == IF Truthy(product.category)
                                 THEN <<" ", "(">> \o product.category \o <<")">>
                                 ELSE <<>>
            IN  <<"-", " ">> \o product.title \o category_part
                \o <<":", " ">> \o price_part
    IN  JoinWith(<<"\n">>, [i \in DOMAIN products |-> line(products[i])])

RECURSIVE Escape(_, _, _)
\* s with every symbol of the set special preceded by the symbol by.
Escape(s, special, by) ==
    IF s = <<>> THEN <<>>
    ELSE (IF Head(s) \in special THEN <<by, Head(s)>> ELSE <<Head(s)>>)
         \o Escape(Tail(s), special, by)

\* CsvField as it would be with the quotes of a quoted field left single.
CsvFieldUndoubled(s) ==
    IF \E i \in DOMAIN s : s[i] \in {",", "\"", "\r", "\n"}
    THEN <<"\"">> \o s \o <<"\"">>
    ELSE s

\* csv.writer's field (the excel dialect, QUOTE_MINIMAL): quoted, with its
\* quotes doubled, when it holds a delimiter, a quote or a line end.
CsvField(s) ==
    IF \E i \in DOMAIN s : s[i] \in {",", "\"", "\r", "\n"}
    THEN <<"\"">> \o Escape(s, {"\""}, "\"") \o <<"\"">>
    ELSE s

\* writer.writerow(fields)
CsvRow(fields) ==
    JoinWith(<<",">>, [i \in DOMAIN fields |-> CsvField(fields[i])]) \o <<"\r", "\n">>

\* What lines 185-189 leave in the file.
CsvFile(products) ==
    CsvRow(<< <<"t","i","t","l","e">>, <<"p","r","i","c","e">>,
              <<"c","a","t","e","g","o","r","y">> >>)
    \o Concat([i \in DOMAIN products |->
                  CsvRow(<< products[i].title, PyOr(products[i].price, <<>>),
                            PyOr(products[i].category, <<>>) >>)])

RECURSIVE JsonEscape(_)
\* The body of a JSON string: " and \ escaped, the line ends and the tab by letter.
JsonEscape(s) ==
    IF s = <<>> THEN <<>>
    ELSE (CASE Head(s) \in {"\"", "\\"} -> <<"\\", Head(s)>>
            [] Head(s) = "\n" -> <<"\\", "n">>
            [] Head(s) = "\r" -> <<"\\", "r">>
            [] Head(s) = "\t" -> <<"\\", "t">>
            [] OTHER -> <<Head(s)>>)
         \o JsonEscape(Tail(s))

\* json.dumps of one field: null, or the string in quotes.
JsonValue(v) ==
    IF v = None THEN <<"n", "u", "l", "l">>
    ELSE <<"\"">> \o JsonEscape(v) \o <<"\"">>

\* json.dumps(payload, ensure_ascii=False, indent=2): the array's objects, each
\* with the keys of product.__dict__ and the dumped values.
JsonDumps(products) ==
    [i \in DOMAIN products |->
        [title |-> JsonValue(products[i].title),
         price |-> JsonValue(products[i].price),
         category |-> JsonValue(products[i].category)]]

\* ------------------------------------------------------------- one run
(***************************************************************************)
(* pc        where main() is: "fetch", "extract", "filter", "limit",       *)
(*           "csv", "print", "saved", then "done", or "raised" when an     *)
(*           exception left main                                           *)
(* args      parse_args(): [keyword, limit_given, limit, as_json,          *)
(*           csv_given]                                                    *)
(* site      what the URL serves: [status, page]                           *)
(* gets      the HTTP GETs sent                                            *)
(* html      the fetched page                                              *)
(* products  extract_products' result; passes: the extractors that ran     *)
(* filtered  main's filtered                                               *)
(* csvfile   the file at --csv's path: Untouched until it is opened        *)
(* stdout    what was printed, one record [kind, text, objects, count] a   *)
(*           print call                                                    *)
(* exception the exception that left main, "" for none                     *)
(***************************************************************************)
VARIABLES pc, args, site, gets, html, products, passes, filtered, csvfile,
          stdout, exception

vars == <<pc, args, site, gets, html, products, passes, filtered, csvfile,
          stdout, exception>>

NoPage == [cards |-> <<>>, scripts |-> <<>>]
Untouched == <<"<untouched>">>

Printed(kind, text, objects, count) ==
    [kind |-> kind, text |-> text, objects |-> objects, count |-> count]

NoMatchMessage ==
    Printed("message", <<"No matching products found.">>, <<>>, 0)

\* fetch_html as it would be if a failed GET were swallowed and main went on with an
\* empty page.
fetch_html_swallowing ==
    /\ pc = "fetch"
    /\ gets' = gets + 1
    /\ html' = (IF site.status = "ok" THEN site.page ELSE NoPage)
    /\ pc' = "extract"
    /\ UNCHANGED <<args, site, products, passes, filtered, csvfile, stdout, exception>>

\* fetch_html(args.url) (line 178): one GET; raise_for_status and the transport
\* raise, nothing retries.
fetch_html ==
    /\ pc = "fetch"
    /\ gets' = gets + 1
    /\ IF site.status = "ok"
       THEN /\ html' = site.page
            /\ pc' = "extract"
            /\ UNCHANGED exception
       ELSE /\ pc' = "raised"
            /\ exception' = (IF site.status = "http_error" THEN "HTTPError"
                             ELSE "ConnectionError")
            /\ UNCHANGED html
    /\ UNCHANGED <<args, site, products, passes, filtered, csvfile, stdout>>

\* main after extract_products returned or raised r.
Extracted(r) ==
    /\ passes' = r.passes
    /\ IF r.raised
       THEN /\ pc' = "raised"
            /\ exception' = "AttributeError"
            /\ UNCHANGED products
       ELSE /\ pc' = "filter"
            /\ products' = r.products
            /\ UNCHANGED exception

\* extract_products(html) (line 179)
Extract ==
    /\ pc = "extract"
    /\ Extracted(extract_products(html))
    /\ UNCHANGED <<args, site, gets, html, filtered, csvfile, stdout>>

\* filter_products(products, args.keyword) (line 180)
Filter ==
    /\ pc = "filter"
    /\ filtered' = filter_products(products, args.keyword)
    /\ pc' = "limit"
    /\ UNCHANGED <<args, site, gets, html, products, passes, csvfile, stdout,
                   exception>>

\* lines 181-182
Limit ==
    /\ pc = "limit"
    /\ filtered' = (IF args.limit_given THEN SliceTo(filtered, args.limit)
                    ELSE filtered)
    /\ pc' = "csv"
    /\ UNCHANGED <<args, site, gets, html, products, passes, csvfile, stdout,
                   exception>>

\* lines 184-189
WriteCsv ==
    /\ pc = "csv"
    /\ csvfile' = (IF args.csv_given THEN CsvFile(filtered) ELSE csvfile)
    /\ pc' = "print"
    /\ UNCHANGED <<args, site, gets, html, products, passes, filtered, stdout,
                   exception>>

\* lines 191-199
PrintResults ==
    /\ pc = "print"
    /\ IF filtered = <<>>
       THEN /\ stdout' = Append(stdout, NoMatchMessage)
            /\ pc' = "done"
       ELSE /\ stdout' = Append(stdout,
                            IF args.as_json
                            THEN Printed("json", <<>>, JsonDumps(filtered), 0)
                            ELSE Printed("text", format_products(filtered), <<>>, 0))
            /\ pc' = "saved"
    /\ UNCHANGED <<args, site, gets, html, products, passes, filtered, csvfile,
                   exception>>

\* lines 201-202
PrintSaved ==
    /\ pc = "saved"
    /\ stdout' = (IF args.csv_given
                  THEN Append(stdout, Printed("saved", <<>>, <<>>, Len(filtered)))
                  ELSE stdout)
    /\ pc' = "done"
    /\ UNCHANGED <<args, site, gets, html, products, passes, filtered, csvfile,
                   exception>>

Next ==
    \/ fetch_html
    \/ Extract
    \/ Filter
    \/ Limit
    \/ WriteCsv
    \/ PrintResults
    \/ PrintSaved

\* ------------------------------------------------------------------ inputs

\* The sequences over S of length at most n.
SeqsUpTo(S, n) == UNION {[1 .. k -> S] : k \in 0 .. n}

Pages(cardPool, scriptPool) ==
    {[cards |-> c, scripts |-> s] :
        c \in SeqsUpTo(cardPool, MaxCards), s \in SeqsUpTo(scriptPool, MaxScripts)}

\* A site serves a page, answers with an error status, or cannot be reached.
Sites(pages) ==
    {[status |-> "ok", page |-> p] : p \in pages}
    \cup {[status |-> e, page |-> NoPage] : e \in {"http_error", "conn_error"}}

Args(keywords, limits, flags) ==
    {[keyword |-> k, limit_given |-> l[1], limit |-> l[2],
      as_json |-> f[1], csv_given |-> f[2]] :
        k \in keywords, l \in limits, f \in flags}

\* --limit absent, or any integer of the bound (argparse's type=int takes them all).
Limits == {<<FALSE, 0>>} \cup {<<TRUE, n>> : n \in (-MaxLimit) .. MaxLimit}

InitFrom(sites, argset) ==
    /\ pc = "fetch"
    /\ args \in argset
    /\ site \in sites
    /\ gets = 0
    /\ html = NoPage
    /\ products = <<>>
    /\ passes = <<>>
    /\ filtered = <<>>
    /\ csvfile = Untouched
    /\ stdout = <<>>
    /\ exception = ""

Plain(children) == Card(children, Absent, Absent, Absent)

ScriptObject ==
    << "{", "goodsName", ":", "\"", "P", "h", "\"", ",", "price", ":", "\"", "9",
       ",", "9", "\"", "}" >>

\* Cards for the runs that vary the arguments: a title with a price element, a
\* title with a quote and a category with a space, a title with a comma, taken
\* from an anchor, with a price in the text and an empty category.
MainCards ==
    { Plain(<<Child("name", <<"A", "I", "p">>), Child("price", <<"9", ",", "9">>)>>),
      Card(<<Child("name", <<"a", "\"">>)>>,
           Attr("obj", <<"A", "I", " ", "p">>, None), Absent, Absent),
      Card(<<Child("atitle", <<"P", ",", "h">>), Child("other", <<"N", "T", "$", "9">>)>>,
           Attr("obj", None, <<>>), Absent, Absent) }

AllFlags == BOOLEAN \X BOOLEAN

Init ==
    InitFrom(Sites(Pages(MainCards, {ScriptObject})),
             Args({<<"A", "I", "p">>, <<>>, <<"z">>}, Limits, AllFlags))

Spec == Init /\ [][Next]_vars

\* Cards for the runs that vary the page.  Phone is the title "Phone A".
Phone == <<"P", "h", "o", "n", "e", " ", "A">>
Currency == <<"N", "T", "$", "9", ",", "9", "9", "9">>
Category == <<"A", "I", " ", "p">>
PhoneCard == Plain(<<Child("name", Phone), Child("other", Currency)>>)

ExtractCards ==
    { PhoneCard,
      \* a price element, and a currency amount in the text after it
      Plain(<<Child("name", Phone), Child("price", <<" ", "9", ",", "9", "\n">>),
              Child("other", <<"N", "T", "1">>)>>),
      \* an empty price element, and a currency amount in the text
      Plain(<<Child("name", Phone), Child("price", <<" ">>),
              Child("other", <<"N", "T", " ", "1">>)>>),
      \* a blank name element before an anchor with a title
      Plain(<<Child("name", <<" ">>), Child("atitle", Phone)>>),
      \* the title from the anchor, no price, metadata that is not JSON
      Card(<<Child("other", <<"x">>), Child("atitle", Phone)>>,
           Attr("bad", None, None), Absent, Absent),
      \* metadata that is not JSON before metadata that is
      Card(<<Child("name", Phone)>>,
           Attr("bad", None, None), Attr("obj", Category, None), Absent),
      \* metadata that is a JSON array
      Card(<<Child("name", Phone)>>, Attr("arr", None, None), Absent, Absent),
      \* metadata in the third attribute, with the broader field only
      Card(<<Child("name", Phone)>>,
           Attr("empty", None, None), Absent, Attr("obj", None, <<"c">>)),
      \* both fields, and the JSON null
      Card(<<Child("name", Phone), Child("price", <<"9">>)>>,
           Attr("obj", Category, <<"c">>), Absent, Absent),
      Card(<<Child("name", Phone)>>, Absent, Attr("null", None, None), Absent),
      \* no element at all, and none with a title
      Card(<<>>, Attr("bad", None, None), Absent, Absent),
      \* a currency prefix and its amount in two elements
      Plain(<<Child("other", <<"N", "T">>), Child("name", <<"1">>)>>) }

ExtractScripts ==
    { ScriptObject,
      <<>>,
      << "{", "goodsName", ":", "P", "}", ",", "price", " ", "9", "}" >> }

InitExtract ==
    InitFrom(Sites(Pages(ExtractCards, ExtractScripts)),
             Args({<<>>}, {<<FALSE, 0>>}, {<<TRUE, TRUE>>}))

\* The runs that vary the page.
ExtractSpec == InitExtract /\ [][Next]_vars

\* Cards for the runs that vary the keyword: a title and a category each.
Titled(title, category) ==
    Card(<<Child("name", title)>>,
         IF category = None THEN Absent ELSE Attr("obj", category, None),
         Absent, Absent)

FilterCards ==
    { Titled(t, c) :
        t \in { <<"A", "I", "p">>, <<"a", " ", "i">>, <<"P", "h">> },
        c \in { None, Category, <<"h", "a">> } }

Keywords ==
    { <<"A", "I", "p">>, <<"a", "i", " ", "P">>, <<>>, <<" ">>, <<"a", "A">>,
      <<"p", " ", "p">> }

InitFilter ==
    InitFrom(Sites(Pages(FilterCards, {<<>>})),
             Args(Keywords, {<<FALSE, 0>>}, {<<TRUE, FALSE>>, <<FALSE, TRUE>>}))

\* The runs that vary the keyword.
FilterSpec == InitFilter /\ [][Next]_vars

\* ------------------------------------------------------------------ claims
(***************************************************************************)
(* Readers for what the run wrote, used to state the claims: Python's      *)
(* csv.reader (the excel dialect) and json.loads of one dumped value.      *)
(***************************************************************************)
RECURSIVE CsvParse(_, _, _, _, _, _)
\* The rows of text from position i on; st is the reader's state ("record" and
\* "field" at the start of one, "in" in a bare field, "quoted" in a quoted one,
\* "quote" after a quote in a quoted one, "cr" after a carriage return), cell
\* and row what was read of the current cell and row.
CsvParse(text, i, st, cell, row, rows) ==
    IF i > Len(text)
    THEN IF st \in {"record", "cr"} THEN rows ELSE Append(rows, Append(row, cell))
    ELSE LET c == text[i]
             endRow == Append(rows, Append(row, cell))
         IN  CASE st = "cr" /\ c = "\n" ->
                    CsvParse(text, i + 1, "record", <<>>, <<>>, rows)
               [] st = "cr" /\ c # "\n" ->
                    CsvParse(text, i, "record", <<>>, <<>>, rows)
               [] st = "quoted" /\ c = "\"" ->
                    CsvParse(text, i + 1, "quote", cell, row, rows)
               [] st = "quoted" /\ c # "\"" ->
                    CsvParse(text, i + 1, "quoted", Append(cell, c), row, rows)
               [] st = "quote" /\ c = "\"" ->
                    CsvParse(text, i + 1, "quoted", Append(cell, c), row, rows)
               [] st \in {"record", "field"} /\ c = "\"" ->
                    CsvParse(text, i + 1, "quoted", <<>>, row, rows)
               [] st \in {"record", "field", "in", "quote"} /\ c = "," ->
                    CsvParse(text, i + 1, "field", <<>>, Append(row, cell), rows)
               [] st \in {"record", "field", "in", "quote"} /\ c = "\r" ->
                    CsvParse(text, i + 1, "cr", <<>>, <<>>,
                             IF st = "record" THEN Append(rows, <<>>) ELSE endRow)
               [] st \in {"record", "field", "in", "quote"} /\ c = "\n" ->
                    CsvParse(text, i + 1, "record", <<>>, <<>>,
                             IF st = "record" THEN Append(rows, <<>>) ELSE endRow)
               [] OTHER ->
                    CsvParse(text, i + 1, "in", Append(cell, c), row, rows)

\* list(csv.reader(file))
CsvRead(text) == CsvParse(text, 1, "record", <<>>, <<>>, <<>>)

RECURSIVE JsonUnescape(_)
JsonUnescape(s) ==
    IF s = <<>> THEN <<>>
    ELSE IF Head(s) = "\\" /\ Len(s) >= 2
    THEN << (CASE s[2] = "n" -> "\n" [] s[2] = "r" -> "\r" [] s[2] = "t" -> "\t"
               [] OTHER -> s[2]) >> \o JsonUnescape(SubSeq(s, 3, Len(s)))
    ELSE <<Head(s)>> \o JsonUnescape(Tail(s))

\* json.loads of a dumped value: None for null, the string for a string.
JsonRead(v) ==
    IF v = <<"n", "u", "l", "l">> THEN None
    ELSE JsonUnescape(SubSeq(v, 2, Len(v) - 1))

\* A CSV cell for a JSON value: the empty cell for null.
CellOf(v) == IF v = None THEN <<>> ELSE v

Range(f) == {f[i] : i \in DOMAIN f}

\* extract_products returned, and main went on.
Returned == pc \in {"filter", "limit", "csv", "print", "saved", "done"}

\* extract_products has just returned: html, passes and products are its
\* argument and its result.
JustExtracted == pc = "filter"

\* main is past the limit: filtered is what is written and printed.
Limited == pc \in {"csv", "print", "saved", "done"}

\* C1: a run whose filtered and limited sequence is empty prints exactly the
\* message "No matching products found." and leaves the file at the --csv path
\* as it was: not created, not truncated, no header row.
C1_EmptyResultWritesNoCsv ==
    (pc = "done" /\ filtered = <<>>)
        => (stdout = <<NoMatchMessage>> /\ csvfile = Untouched)

\* C2: with --limit n, for any integer n, the sequence that is output has exactly
\* min(n, len(F)) records and is a prefix of the filtered sequence F.
C2_LimitYieldsMin ==
    (Limited /\ args.limit_given)
        => LET F == filter_products(products, args.keyword)
           IN  /\ Len(filtered) = Min(args.limit, Len(F))
               /\ filtered = SubSeq(F, 1, Len(filtered))

\* The claim's matching rule, stated apart from the code: the keyword, spaces
\* removed and lowercased, is a substring of category followed by title, spaces
\* removed and lowercased.
NormalizedText(s) == Lower(RemoveSpaces(s))
KeywordInListing(product, keyword) ==
    Contains(NormalizedText(keyword),
             NormalizedText((IF product.category = None THEN <<>>
                             ELSE product.category) \o product.title))

C4_FilterIdempotent ==
    pc = "limit" => filter_products(filtered, args.keyword) = filtered

C4_Witness ==
    /\ pc = "limit"
    /\ filtered # <<>>
    /\ Len(filtered) < Len(products)
    /\ filter_products(filtered, args.keyword) = filtered

\* C5: the script extractor runs if and only if the card extractor admitted no
\* listing: with a listing admitted the scripts are not scanned and the result is
\* the card listings; with none admitted the scripts are scanned after the cards
\* and their listings are the result.
C5_ScriptsIffNoCardListing ==
    JustExtracted
        => LET cards == _extract_from_cards(html.cards).products
           IN  /\ cards # <<>> => (passes = <<"cards">> /\ products = cards)
               /\ cards = <<>> => (/\ passes = <<"cards", "scripts">>
                                   /\ products = _extract_from_scripts(html.scripts))

C5_Witness ==
    /\ JustExtracted
    /\ html.cards # <<>>
    /\ passes = <<"cards", "scripts">>
    /\ products # <<>>

\* C6: every listing extract_products returns, by the cards or by the scripts,
\* has a non-empty title.
C6_TitlesNonEmpty ==
    Returned => \A i \in DOMAIN products : Truthy(products[i].title)

Scrubbed(li) ==
    LET given(a) == a.kind \notin {"absent", "empty"}
        raw == IF given(li.dataEc) THEN li.dataEc
               ELSE IF given(li.ecData) THEN li.ecData
               ELSE li.dataGtm
    IN  IF raw.kind \in {"bad", "null", "arr"} THEN Plain(li.children) ELSE li

ScrubbedPage(page) ==
    [cards |-> [i \in DOMAIN page.cards |-> Scrubbed(page.cards[i])],
     scripts |-> page.scripts]

\* C8: a card whose metadata attribute is present and yields no usable metadata
\* raises no error: extraction goes on and returns what it returns for the page
\* with that card's metadata absent.
C8_UnusableMetadataIsNoMetadata ==
    (site.status = "ok" /\ pc \notin {"fetch", "extract"})
        => /\ exception = ""
           /\ products = extract_products(ScrubbedPage(html)).products

\* C9: a failed GET is fatal and nothing follows it: the error leaves main after
\* the one GET, and nothing is extracted, filtered, printed or written; and
\* whatever is printed or written comes after the fetch and the extraction.
C9_FetchFailureIsFatal ==
    /\ (site.status # "ok" /\ pc # "fetch")
          => /\ pc = "raised"
             /\ exception \in {"HTTPError", "ConnectionError"}
             /\ gets = 1
             /\ html = NoPage /\ passes = <<>> /\ products = <<>> /\ filtered = <<>>
             /\ stdout = <<>> /\ csvfile = Untouched
    /\ (stdout # <<>> \/ csvfile # Untouched)
          => (gets = 1 /\ passes # <<>> /\ Limited)

C9_Witness ==
    /\ pc = "raised"
    /\ site.status = "http_error"
    /\ args.csv_given
    /\ gets = 1

\* The claim's price rule, stated apart from the code.  The amount after a
\* currency prefix at position i of text: after N, T, an optional $ and any
\* spaces, the longest run of digits and commas.
AmountStart(text, i) ==
    LET j == IF i + 2 <= Len(text) /\ text[i + 2] = "$" THEN i + 3 ELSE i + 2
    IN  Least({k \in j .. (Len(text) + 1) :
                  \A m \in j .. (Len(text) + 1) :
                      (m >= k) \/ (m <= Len(text) /\ IsSpace(text[m]))})
AmountAt(text, i) ==
    LET k == AmountStart(text, i)
        e == Most({m \in (k - 1) .. Len(text) :
                      \A n \in k .. m : IsDigitOrComma(text[n])})
    IN  SubSeq(text, k, e)
PrefixAt(text, i) ==
    /\ i + 1 <= Len(text) /\ text[i] = "N" /\ text[i + 1] = "T"
    /\ AmountAt(text, i) # <<>>
PriceRule(li) ==
    LET nodes == {i \in DOMAIN li.children : li.children[i].kind = "price"}
        text == GetText(li)
        at == {i \in DOMAIN text : PrefixAt(text, i)}
    IN  IF nodes # {}
        THEN LET t == Strip(li.children[Least(nodes)].text)
             IN  IF t = <<>> THEN None ELSE t
        ELSE IF at # {} THEN AmountAt(text, Least(at)) ELSE None

\* C10: a listing's price is the stripped text of the card's first price
\* element, absent when that is empty; only without such an element is it the
\* amount after the first currency prefix in the card's text, absent without
\* one.  The card with title "Phone A" and text "NT$9,999" gives
\* {title: "Phone A", price: "9,999", category: None}.
C10_PriceRule ==
    (JustExtracted /\ passes = <<"cards">>)
        => LET admitted == SelectSeq(html.cards, LAMBDA li : Truthy(CardTitle(li)))
           IN  /\ Len(products) = Len(admitted)
               /\ \A i \in DOMAIN products :
                     /\ products[i].price = PriceRule(admitted[i])
                     /\ admitted[i] = PhoneCard
                           => products[i] = Product(Phone, <<"9", ",", "9", "9", "9">>, None)

C10_Witness ==
    /\ JustExtracted /\ passes = <<"cards">>
    /\ Len(products) = 2
    /\ html.cards[1] = PhoneCard
    /\ products[1] = Product(Phone, <<"9", ",", "9", "9", "9">>, None)
    /\ FirstChild(html.cards[2], {"price"}) = Child("price", <<" ">>)
    /\ Search(PricePattern, GetText(html.cards[2]), 1).found
    /\ products[2].price = None

====
